---- MODULE Spec2Model ----
(***************************************************************************)
(* Model of the tool-set reconciler of the extendable Kubernetes MCP       *)
(* server (pkg/mcp/extendable_server.go): NewExtendableServer,             *)
(* registerResources, reloadKubernetesClusterProvider, GetEnabledTools and *)
(* Close, together with the collaborators the reconciler drives: the       *)
(* cluster provider (NewProvider, GetTargets, WatchTargets, Close) and the *)
(* protocol server (AddTool, RemoveTools, AddResource).                    *)
(*                                                                         *)
(* The Server struct has no lock.  reloadKubernetesClusterProvider is      *)
(* modelled statement by statement, one pass record per execution, so that *)
(* a pass started by a watcher's goroutine can interleave with the         *)
(* constructor and with every other pass the watchers start.               *)
(*                                                                         *)
(* The provider is a library type (internalk8s.Provider).  Its watch is    *)
(* modelled as a kubeconfig file watcher: WatchTargets(f) starts a watcher *)
(* with its own goroutine, which calls f once per kubeconfig event, one    *)
(* call at a time; a second WatchTargets on the same provider replaces     *)
(* (closes) the first watcher; Close closes the provider's watcher; a      *)
(* closed watcher delivers nothing, events that wait in it are dropped,    *)
(* and a callback it has already started runs to its end.                  *)
(*                                                                         *)
(* Three specifications share the actions: Spec (the server with its       *)
(* watchers and Close), FilterSpec (the initial pass under every           *)
(* combination of the configuration's flags and lists) and CallSpec (the   *)
(* server with a client's tool call in flight).  A fourth, AuthSpec,       *)
(* follows one HTTP request through AuthorizationMiddleware and            *)
(* validateToken (pkg/http/authorization.go).                              *)
(***************************************************************************)
EXTENDS Integers, Sequences, FiniteSets, TLC

\* ---------------------------------------------------------------- bounds
MaxPasses == 3      \* executions of reloadKubernetesClusterProvider
MaxEvents == 2      \* kubeconfig events (target changes or touches)

\* ------------------------------------------------------------ data model
Nil == "nil"

TargetSets == {{"prod"}, {"prod", "staging"}}

\* ptr.Deref(hint, false)
Deref(hint) == hint = "true"

ServerTool(name, ro, de, tl, ok) ==
    [name |-> name, readOnly |-> ro, destructive |-> de,
     targetList |-> tl, schemaOk |-> ok, param |-> FALSE]

\* Toolsets of the catalog, in configured order.  The tools' schemaOk field
\* is set from the run's input.
CoreTools ==
    << ServerTool("pods_list", "true", "unset", FALSE, TRUE) >>

ConfigTools ==
    << ServerTool("contexts_list", "true", "false", TRUE, TRUE) >>

ExtTools ==
    << ServerTool("pods_delete", "unset", "true", FALSE, TRUE),
       ServerTool("pods_list", "false", "unset", FALSE, TRUE) >>

\* A toolset that is a ResourceProvider offers its resources in the order
\* its RegisterResources hands them to the register function.
BaseCatalog ==
    << [name |-> "core", tools |-> CoreTools, resources |-> << >>],
       [name |-> "config", tools |-> ConfigTools, resources |-> << >>] >>

ExtCatalog ==
    << [name |-> "core", tools |-> CoreTools, resources |-> << >>],
       [name |-> "config", tools |-> ConfigTools, resources |-> << >>],
       [name |-> "ext", tools |-> ExtTools,
        resources |-> << "crd://functions", "crd://docs" >>] >>

\* A Go slice of strings: the nil slice, or a slice with its elements
\* (possibly none).
NilSlice == [isNil |-> TRUE, elems |-> << >>]

Slice(elems) == [isNil |-> FALSE, elems |-> elems]

DefaultConfig ==
    [ReadOnly |-> FALSE, DisableDestructive |-> FALSE,
     EnabledTools |-> NilSlice, DisabledTools |-> NilSlice]

\* The runs of the server that are explored: a configuration, a catalog and
\* the set of tool names whose input schema cannot be marshalled.
Inputs ==
    { [config |-> DefaultConfig, catalog |-> BaseCatalog, bad |-> {}],
      [config |-> DefaultConfig, catalog |-> BaseCatalog, bad |-> {"contexts_list"}],
      [config |-> [DefaultConfig EXCEPT !.DisableDestructive = TRUE],
       catalog |-> ExtCatalog, bad |-> {}] }

RECURSIVE Flatten(_)
Flatten(toolsets) ==
    IF toolsets = << >> THEN << >>
    ELSE Head(toolsets).tools \o Flatten(Tail(toolsets))

Range(s) == { s[x] : x \in 1..Len(s) }

Contains(s, e) == e \in Range(s)

\* ------------------------------------------------------------- variables
VARIABLES
    input,          \* configuration, catalog and bad schemas of this run
    targets,        \* the targets the kubeconfig currently describes
    nEvents,        \* kubeconfig events so far
    ctor,           \* position of NewExtendableServer
    resources,      \* the AddResource calls made on the protocol server
    sp,             \* Server.p (0 is nil)
    enabledTools,   \* Server.enabledTools
    serverTools,    \* tools installed in the protocol server
    provs,          \* providers created by NewProvider
    watchers,       \* watchers started by WatchTargets
    passes,         \* executions of reloadKubernetesClusterProvider
    npass,          \* executions started
    userClosed,     \* Server.Close was called
    call,           \* a tool call of a client
    http            \* an HTTP request in AuthorizationMiddleware

vars == << input, targets, nEvents, ctor, resources, sp, enabledTools,
           serverTools, provs, watchers, passes, npass, userClosed, call,
           http >>

\* ------------------------------------------------- configuration, catalog
\* Configuration.Toolsets (lines 36-43) with each tool's schema as the run's
\* input gives it.
Toolsets ==
    [ x \in 1..Len(input.catalog) |->
        [ input.catalog[x] EXCEPT !.tools =
            [ y \in 1..Len(input.catalog[x].tools) |->
                [ input.catalog[x].tools[y] EXCEPT
                    !.schemaOk = input.catalog[x].tools[y].name \notin input.bad ] ] ] ]

\* The nested iteration of lines 190-191 as one sequence: toolsets in
\* configured order, tools in the order GetTools returns them.
CatalogTools == Flatten(Toolsets)

\* isToolApplicable without the read-only rule of lines 53-55.
isToolApplicableAnyReadOnly(c, tool) ==
    IF c.DisableDestructive /\ Deref(tool.destructive) THEN FALSE
    ELSE IF ~c.EnabledTools.isNil /\ ~Contains(c.EnabledTools.elems, tool.name) THEN FALSE
    ELSE IF ~c.DisabledTools.isNil /\ Contains(c.DisabledTools.elems, tool.name) THEN FALSE
    ELSE TRUE

\* isToolApplicable without the destructive rule of lines 56-58.
isToolApplicableAnyDestructive(c, tool) ==
    IF c.ReadOnly /\ ~Deref(tool.readOnly) THEN FALSE
    ELSE IF ~c.EnabledTools.isNil /\ ~Contains(c.EnabledTools.elems, tool.name) THEN FALSE
    ELSE IF ~c.DisabledTools.isNil /\ Contains(c.DisabledTools.elems, tool.name) THEN FALSE
    ELSE TRUE

\* isToolApplicable without the deny-list rule of lines 62-64.
isToolApplicableNoDenyList(c, tool) ==
    IF c.ReadOnly /\ ~Deref(tool.readOnly) THEN FALSE
    ELSE IF c.DisableDestructive /\ Deref(tool.destructive) THEN FALSE
    ELSE IF ~c.EnabledTools.isNil /\ ~Contains(c.EnabledTools.elems, tool.name) THEN FALSE
    ELSE TRUE

\* Configuration.isToolApplicable (lines 52-66).
isToolApplicable(c, tool) ==
    IF c.ReadOnly /\ ~Deref(tool.readOnly) THEN FALSE
    ELSE IF c.DisableDestructive /\ Deref(tool.destructive) THEN FALSE
    ELSE IF ~c.EnabledTools.isNil /\ ~Contains(c.EnabledTools.elems, tool.name) THEN FALSE
    ELSE IF ~c.DisabledTools.isNil /\ Contains(c.DisabledTools.elems, tool.name) THEN FALSE
    ELSE TRUE

\* ShouldIncludeTargetListTool: the list-targets meta-tool is applicable
\* if and only if two or more targets are resolved.
ShouldIncludeTargetListTool(tg, tool) ==
    IF tool.targetList THEN Cardinality(tg) >= 2 ELSE TRUE

\* CompositeFilter: the conjunction of its predicates.
CompositeFilter(c, tg, tool) ==
    isToolApplicable(c, tool) /\ ShouldIncludeTargetListTool(tg, tool)

\* WithTargetParameter: with more than one target the tool's input schema
\* gets the target parameter; with one target the tool passes unchanged.
WithTargetParameter(tg, tool) ==
    IF Cardinality(tg) > 1 THEN [tool EXCEPT !.param = TRUE] ELSE tool

\* The applicable tools a pass collects for targets tg (lines 187-200):
\* every catalog tool is mutated, then filtered.
ApplicableTools(c, tg) ==
    SelectSeq([ x \in 1..Len(CatalogTools) |->
                  WithTargetParameter(tg, CatalogTools[x]) ],
              LAMBDA tool : CompositeFilter(c, tg, tool))

\* ServerToolToGoSdkTool: fails when the input schema cannot be marshalled.
ServerToolToGoSdkTool(tool) == tool.schemaOk

\* ToolsToRemove without the membership test of line 205: every previously
\* enabled name is removed.
ToolsToRemoveAll(previousTools, enabled) == previousTools

\* toolsToRemove of lines 203-208.
ToolsToRemove(previousTools, enabled) ==
    SelectSeq(previousTools, LAMBDA oldTool : ~Contains(enabled, oldTool))

\* NextPc with the additions of lines 211-217 placed before the removal of
\* line 209.
NextPcAddFirst(pc) ==
    CASE pc = "newprov"  -> "closeold"
      [] pc = "closeold" -> "setp"
      [] pc = "setp"     -> "begin"
      [] pc = "begin"    -> "loop"
      [] pc = "loop"     -> "add"
      [] pc = "add"      -> "remove"
      [] pc = "remove"   -> "watch"
      [] OTHER           -> "done"

\* NextPc with the tool set applied before the targets are resolved.
NextPcResolveLast(pc) ==
    CASE pc = "newprov"  -> "closeold"
      [] pc = "closeold" -> "begin"
      [] pc = "begin"    -> "loop"
      [] pc = "loop"     -> "remove"
      [] pc = "remove"   -> "add"
      [] pc = "add"      -> "setp"
      [] pc = "setp"     -> "watch"
      [] OTHER           -> "done"

\* The statements of reloadKubernetesClusterProvider in program order.
NextPc(pc) ==
    CASE pc = "newprov"  -> "closeold"
      [] pc = "closeold" -> "setp"
      [] pc = "setp"     -> "begin"
      [] pc = "begin"    -> "loop"
      [] pc = "loop"     -> "remove"
      [] pc = "remove"   -> "add"
      [] pc = "add"      -> "watch"
      [] OTHER           -> "done"

\* ------------------------------------------------------ protocol server
\* mcp.Server.RemoveTools
RemoveTools(installed, names) ==
    { t \in installed : ~Contains(names, t.name) }

\* mcp.Server.AddTool: a tool of the same name is replaced.
AddTool(installed, tool) ==
    { t \in installed : t.name # tool.name } \cup {tool}

\* What a client enumerating tools sees.
AdvertisedNames == { t.name : t \in serverTools }

\* Server.GetEnabledTools (lines 262-265).
GetEnabledTools == enabledTools

\* ------------------------------------------------------------- provider
\* Provider.Close: the provider's watcher, if any, is closed.
CloseProvider(ps, p) == [ps EXCEPT ![p].closed = TRUE]

CloseWatchOf(ws, ps, p) ==
    IF ps[p].watch # 0 THEN [ws EXCEPT ![ps[p].watch].open = FALSE] ELSE ws

\* Provider.WatchTargets: a new watcher on p; p's previous watcher is closed.
WatchedProvs(ps, ws, p) == [ps EXCEPT ![p].watch = Len(ws) + 1]

WatchedWatchers(ps, ws, p) ==
    Append(CloseWatchOf(ws, ps, p),
           [prov |-> p, open |-> TRUE, pending |-> 0, busy |-> FALSE])

\* ------------------------------------------------------------- tool calls
\* No tool call has been dispatched.
NoCall == [st |-> "none", name |-> Nil, p |-> 0, quiet |-> FALSE]

\* ---------------------------------------------------------- HTTP requests
\* Strings the middleware takes apart are sequences of pieces: the header
\* value "Bearer good" is << "Bearer ", "good" >>, the empty string << >>.
\* strings.HasPrefix as letting "bearer " pass for the prefix.
HasPrefixAnyCase(s, prefix) ==
    Len(s) >= 1 /\ s[1] \in { prefix, "bearer " }

\* strings.HasPrefix (line 225).
HasPrefix(s, prefix) ==
    Len(s) >= 1 /\ s[1] = prefix

\* strings.TrimPrefix (line 231).
TrimPrefix(s, prefix) ==
    IF Len(s) >= 1 /\ s[1] = prefix THEN Tail(s) ELSE s

\* The health endpoint and the well-known endpoints of line 210.
healthEndpoint == "/healthz"
WellKnownEndpoints ==
    { "/.well-known/oauth-protected-resource",
      "/.well-known/openid-configuration" }

\* Request URLs: r.URL.Path is the decoded path, r.URL.EscapedPath() the
\* path as the client spelled it when that is a valid encoding.
Urls ==
    { [Path |-> "/healthz", Escaped |-> "/healthz"],
      [Path |-> "/mcp", Escaped |-> "/mcp"],
      [Path |-> "/.well-known/oauth-protected-resource",
       Escaped |-> "/.well-known/oauth-protected-resource"],
      [Path |-> "/.well-known/oauth-protected-resource",
       Escaped |-> "/.well-known/oauth%2Dprotected-resource"] }

\* The condition of line 210 with the well-known endpoints left out.
IsUnprotectedHealthOnly(url) ==
    url.Path = healthEndpoint

\* The condition of line 210.
IsUnprotected(url) ==
    url.Path = healthEndpoint \/ url.Escaped \in WellKnownEndpoints

\* What the external validators find in a compact JWT: whether it parses
\* as a signed token, whether its payload decodes into claims, its expiry,
\* audiences and scope claim, and the verdicts of the OIDC provider and of
\* the cluster's TokenReview on it.
Jwt(parses, payload, expired, aud, scope, oidc, review) ==
    [parses |-> parses, payload |-> payload, expired |-> expired, aud |-> aud,
     scope |-> scope, oidc |-> oidc, review |-> review]

TokenInfo ==
    [ t \in { "good", "noscope", "garbled", "badpayload", "expired", "otheraud",
              "forged", "revoked", "xgood", "xgarbled", "xrevoked" } |->
        CASE t = "good"       -> Jwt(TRUE, TRUE, FALSE, {"mcp"}, << "read", " ", "write" >>, TRUE, TRUE)
          [] t = "noscope"    -> Jwt(TRUE, TRUE, FALSE, {"mcp"}, << >>, TRUE, TRUE)
          [] t = "garbled"    -> Jwt(FALSE, FALSE, FALSE, {}, << >>, FALSE, FALSE)
          [] t = "badpayload" -> Jwt(TRUE, FALSE, FALSE, {}, << >>, TRUE, TRUE)
          [] t = "expired"    -> Jwt(TRUE, TRUE, TRUE, {"mcp"}, << "read" >>, TRUE, TRUE)
          [] t = "otheraud"   -> Jwt(TRUE, TRUE, FALSE, {"other"}, << "read" >>, TRUE, TRUE)
          [] t = "forged"     -> Jwt(TRUE, TRUE, FALSE, {"mcp"}, << "read" >>, FALSE, TRUE)
          [] t = "revoked"    -> Jwt(TRUE, TRUE, FALSE, {"mcp"}, << "read" >>, TRUE, FALSE)
          [] t = "xgood"      -> Jwt(TRUE, TRUE, FALSE, {"k8s"}, << "cluster" >>, TRUE, TRUE)
          [] t = "xgarbled"   -> Jwt(FALSE, FALSE, FALSE, {}, << >>, FALSE, FALSE)
          [] t = "xrevoked"   -> Jwt(TRUE, TRUE, FALSE, {"k8s"}, << "cluster" >>, TRUE, FALSE) ]

\* Tokens a client presents and tokens the token exchange hands out.
PresentedTokens ==
    { "good", "noscope", "garbled", "badpayload", "expired", "otheraud",
      "forged", "revoked" }
ExchangedTokens == { "xgood", "xgarbled", "xrevoked" }

\* Authorization header values of a request.
AuthHeaders ==
    { << >>, << "Basic ", "good" >>, << "bearer ", "good" >>, << "Bearer " >>,
      << "Bearer ", "Bearer ", "good" >> }
    \cup { << "Bearer ", t >> : t \in PresentedTokens }

\* Errors; the error value names the call that produced it.
NoErr == "nil"

\* A nil *JWTClaims and the claims of a token (JWTClaims, lines 261-265).
NilClaims ==
    [isNil |-> TRUE, Token |-> << >>, Scope |-> << >>, Expired |-> FALSE,
     Audience |-> {}]

\* ParseJWTClaims (lines 310-319): claims and error.
ParseJWTClaims(token) ==
    IF Len(token) = 1 /\ token[1] \in DOMAIN TokenInfo /\ TokenInfo[token[1]].parses
    THEN LET info == TokenInfo[token[1]]
         IN  [claims |-> [isNil |-> FALSE, Token |-> token,
                          Scope |-> IF info.payload THEN info.scope ELSE << >>,
                          Expired |-> info.expired, Audience |-> info.aud],
              err |-> IF info.payload THEN NoErr ELSE "parse"]
    ELSE [claims |-> NilClaims, err |-> "parse"]

\* strings.Fields (line 271).
Fields(s) == SelectSeq(s, LAMBDA a : a # " ")

\* JWTClaims.GetScopes (lines 267-272).
GetScopes(c) ==
    IF c.Scope = << >> THEN NilSlice ELSE Slice(Fields(c.Scope))

\* JWTClaims.ValidateOffline (lines 275-284).
ValidateOffline(c, audience) ==
    IF c.Expired \/ (audience # "" /\ audience \notin c.Audience)
    THEN "offline" ELSE NoErr

\* JWTClaims.ValidateWithProvider (lines 287-298); oidc is provider != nil.
ValidateWithProvider(c, audience, oidc) ==
    IF oidc /\ ~(Len(c.Token) = 1 /\ TokenInfo[c.Token[1]].oidc)
    THEN "provider" ELSE NoErr

\* The verifier's GetTargetParameterName (line 155).
TargetParameterName == "context"

\* JWTClaims.ValidateWithKubernetesApi (lines 300-308) with a verifier that
\* is not nil.
ValidateWithKubernetesApi(c, audience, cluster) ==
    IF Len(c.Token) = 1 /\ TokenInfo[c.Token[1]].review
    THEN NoErr ELSE "review"

\* Request bodies, as bytes.
Bodies ==
    { "", "garbage", "call()", "call(context:prod)", "call(context:7)",
      "call(cluster:prod)" }

\* json.Unmarshal into the request structure of lines 47-51: whether the
\* bytes decode, and params.arguments.
Unmarshal(body) ==
    CASE body = "call()" -> [ok |-> TRUE, args |-> {}]
      [] body = "call(context:prod)" ->
             [ok |-> TRUE,
              args |-> {[name |-> "context", isString |-> TRUE, value |-> "prod"]}]
      [] body = "call(context:7)" ->
             [ok |-> TRUE,
              args |-> {[name |-> "context", isString |-> FALSE, value |-> "7"]}]
      [] body = "call(cluster:prod)" ->
             [ok |-> TRUE,
              args |-> {[name |-> "cluster", isString |-> TRUE, value |-> "prod"]}]
      [] OTHER -> [ok |-> FALSE, args |-> {}]

\* A request body (r.Body): nil, the connection's reader, or a buffer
\* holding bytes.
NilBody == [kind |-> "nil", bytes |-> ""]
ConnBody == [kind |-> "conn", bytes |-> ""]
BufferBody(bytes) == [kind |-> "buffer", bytes |-> bytes]

\* The bytes a reader of the body gets, conn being what is left unread on
\* the connection.
ReadAll(body, conn) ==
    CASE body.kind = "nil" -> ""
      [] body.kind = "conn" -> conn
      [] OTHER -> body.bytes

\* extractTargetFromRequest (lines 32-64) on a request with this body: the
\* target, the request's body afterwards and what is left on the connection.
extractTargetFromRequest(body, conn, targetName) ==
    IF body.kind = "nil"
    THEN [cluster |-> "", body |-> body, conn |-> conn]
    ELSE LET bytes == ReadAll(body, conn)
             req == Unmarshal(bytes)
             found == { a \in req.args : a.name = targetName /\ a.isString }
         IN  [cluster |-> IF req.ok /\ found # {}
                          THEN (CHOOSE a \in found : TRUE).value ELSE "",
              body |-> BufferBody(bytes),
              conn |-> IF body.kind = "conn" THEN "" ELSE conn]

\* The value under TokenScopesContextKey in a context.
NoScopes == [set |-> FALSE, scopes |-> NilSlice]
WithScopes(scopes) == [set |-> TRUE, scopes |-> scopes]

\* The WWW-Authenticate header of lines 219-222 and 68.
NoChallenge == [realm |-> "", audience |-> "", error |-> ""]
wwwAuthenticateHeader(cfg, errorType) ==
    [realm |-> "Kubernetes MCP Server", audience |-> cfg.OAuthAudience,
     error |-> errorType]

\* What the next handler was given.
NotForwarded == [header |-> << >>, body |-> "", scopes |-> NoScopes]

\* Static configuration and collaborators of the middleware: sts is
\* sts.IsEnabled() (line 133), oidc is oidcProvider != nil.
AuthConfigs ==
    [RequireOAuth : BOOLEAN, ValidateToken : BOOLEAN,
     OAuthAudience : { "", "mcp" }, oidc : BOOLEAN, sts : BOOLEAN]

\* A request as it enters the handler of line 209.
NewRequest(cfg, url, header, body) ==
    [pc |-> "start", cfg |-> cfg, url |-> url, sent |-> header,
     sentBody |-> body, header |-> header,
     body |-> IF body = NilBody THEN "" ELSE body.bytes,
     origBody |-> IF body = NilBody THEN NilBody ELSE ConnBody,
     conn |-> IF body = NilBody THEN "" ELSE body.bytes,
     r |-> "original", copyBody |-> NilBody, origCtx |-> NoScopes,
     copyCtx |-> NoScopes,
     token |-> << >>, claims |-> NilClaims, err |-> NoErr,
     steps |-> << >>, failed |-> << >>, exchanged |-> << >>,
     reviewed |-> [done |-> FALSE, token |-> << >>, cluster |-> ""],
     status |-> 0, challenge |-> NoChallenge, nextCalls |-> 0,
     fwd |-> NotForwarded]

AuthRequests ==
    { NewRequest(cfg, url, header, body) :
        cfg \in AuthConfigs, url \in Urls, header \in AuthHeaders,
        body \in { NilBody } \cup { BufferBody(b) : b \in Bodies } }

\* No request is being served.
NoHttp ==
    [NewRequest([RequireOAuth |-> FALSE, ValidateToken |-> FALSE,
                 OAuthAudience |-> "", oidc |-> FALSE, sts |-> FALSE],
                [Path |-> "/healthz", Escaped |-> "/healthz"], << >>, NilBody)
        EXCEPT !.pc = "none"]

\* ----------------------------------------------------------------- passes
NoPass ==
    [pc |-> "idle", w |-> 0, p |-> 0, tg |-> {}, prev |-> << >>,
     appl |-> << >>, i |-> 0, rem |-> << >>, j |-> 0, res |-> "none",
     preEnabled |-> << >>, preAdv |-> {}, ops |-> << >>, wrote |-> FALSE,
     built |-> FALSE, alone |-> TRUE,
     after |-> 0, postEnabled |-> << >>, postAdv |-> {}, wp |-> 0]

Running(k) == passes[k].pc \notin {"idle", "done"}

InFlight == { k \in 1..MaxPasses : Running(k) }

Finished == { k \in 1..MaxPasses : passes[k].pc = "done" }

\* The pass records after execution k of the callback starts in watcher w
\* (0: the constructor's own call).  The history fields record what the
\* pass found and did: the enabled names and the installed tools at its
\* start (preEnabled, preAdv) and at its return (postEnabled, postAdv), the
\* operations it issued against the protocol server (ops), whether it wrote
\* s.enabledTools or the protocol server (wrote), whether it started after
\* NewExtendableServer had returned the server (built), whether no other pass was
\* in flight at any time between its start and its return (alone), the
\* number of passes started before it when none was in flight (after), and
\* the provider its WatchTargets call of line 220 went to (wp).
StartedPasses(k, w) ==
    [ x \in 1..MaxPasses |->
        IF x = k
        THEN [NoPass EXCEPT !.pc = "newprov", !.w = w,
                            !.preEnabled = enabledTools,
                            !.preAdv = serverTools,
                            !.built = (ctor = "done"),
                            !.alone = (InFlight = {}),
                            !.after = IF InFlight = {} THEN npass ELSE 0]
        ELSE IF Running(x) THEN [passes[x] EXCEPT !.alone = FALSE]
        ELSE passes[x] ]

Init ==
    /\ input \in Inputs
    /\ targets \in TargetSets
    /\ nEvents = 0
    /\ ctor = "register"
    /\ resources = << >>
    /\ sp = 0
    /\ enabledTools = << >>
    /\ serverTools = {}
    /\ provs = << >>
    /\ watchers = << >>
    /\ passes = [k \in 1..MaxPasses |-> NoPass]
    /\ npass = 0
    /\ userClosed = FALSE
    /\ call = NoCall
    /\ http = NoHttp

\* ------------------------------------------------- NewExtendableServer
\* registerResources going over the toolsets twice.
RegisteredResourcesTwice(toolsets) ==
    Flatten([ x \in 1..(2 * Len(toolsets)) |->
                [tools |-> toolsets[((x - 1) % Len(toolsets)) + 1].resources] ])

\* The AddResource calls of registerResources (lines 117-151) over the
\* toolsets: one call per resource a ResourceProvider toolset offers, in
\* toolset order.
RegisteredResources(toolsets) ==
    Flatten([ x \in 1..Len(toolsets) |-> [tools |-> toolsets[x].resources] ])

\* registerResources (lines 117-151) fails: the RegisterResources of
\* toolset x returns an error after n of its resources were registered, and
\* NewExtendableServer returns the error (lines 104-106).
RegisterResourcesFails ==
    /\ ctor = "register"
    /\ \E x \in 1..Len(Toolsets) :
          /\ Toolsets[x].resources # << >>
          /\ \E n \in 0..(Len(Toolsets[x].resources) - 1) :
                resources' = RegisteredResources(SubSeq(Toolsets, 1, x - 1))
                                 \o SubSeq(Toolsets[x].resources, 1, n)
    /\ ctor' = "failed"
    /\ UNCHANGED << input, call, http, targets, nEvents, sp, enabledTools,
                    serverTools, provs, watchers, passes, npass, userClosed >>

\* registerResources succeeds and the initial pass begins (line 109).
RegisterResources ==
    /\ ctor = "register"
    /\ resources' = RegisteredResources(Toolsets)
    /\ ctor' = "reload"
    /\ npass' = 1
    /\ passes' = StartedPasses(1, 0)
    /\ UNCHANGED << input, call, http, targets, nEvents, sp, enabledTools, serverTools,
                    provs, watchers, userClosed >>

\* s.p.WatchTargets(s.reloadKubernetesClusterProvider) (line 112), then
\* return s (line 114).
CtorWatchTargets ==
    /\ ctor = "watch"
    /\ provs' = WatchedProvs(provs, watchers, sp)
    /\ watchers' = WatchedWatchers(provs, watchers, sp)
    /\ ctor' = "done"
    /\ UNCHANGED << input, call, http, targets, nEvents, resources, sp, enabledTools,
                    serverTools, passes, npass, userClosed >>

\* Server.Close (lines 267-272).
Close ==
    /\ ctor = "done"
    /\ ~userClosed
    /\ userClosed' = TRUE
    /\ IF sp # 0
       THEN /\ provs' = CloseProvider(provs, sp)
            /\ watchers' = CloseWatchOf(watchers, provs, sp)
       ELSE UNCHANGED << provs, watchers >>
    /\ UNCHANGED << input, call, http, targets, nEvents, ctor, resources, sp,
                    enabledTools, serverTools, passes, npass >>

\* ------------------------------------------------------------ environment
\* The kubeconfig is written: the targets become T (possibly the same
\* targets), and every open watcher gets an event.
KubeConfigEvent(T) ==
    /\ nEvents < MaxEvents
    /\ nEvents' = nEvents + 1
    /\ targets' = T
    /\ watchers' = [ w \in 1..Len(watchers) |->
                       IF watchers[w].open
                       THEN [watchers[w] EXCEPT !.pending = @ + 1]
                       ELSE watchers[w] ]
    /\ UNCHANGED << input, call, http, ctor, resources, sp, enabledTools, serverTools,
                    provs, passes, npass, userClosed >>

\* A watcher's goroutine takes an event and calls the callback.
Deliver(w) ==
    /\ watchers[w].open
    /\ watchers[w].pending > 0
    /\ ~watchers[w].busy
    /\ npass < MaxPasses
    /\ npass' = npass + 1
    /\ watchers' = [watchers EXCEPT ![w].pending = @ - 1, ![w].busy = TRUE]
    /\ passes' = StartedPasses(npass + 1, w)
    /\ UNCHANGED << input, call, http, targets, nEvents, ctor, resources, sp,
                    enabledTools, serverTools, provs, userClosed >>

\* ------------------------------------ reloadKubernetesClusterProvider
PassVarsUnchanged ==
    UNCHANGED << input, call, http, targets, nEvents, resources, npass, userClosed >>

\* The function returns with result res.  The goroutine of the watcher that
\* called it is free again; when the caller is NewExtendableServer (line
\* 109) the constructor goes on to line 112 or returns the error.
Returned(k, res, ws) ==
    /\ watchers' = IF passes[k].w # 0
                   THEN [ws EXCEPT ![passes[k].w].busy = FALSE]
                   ELSE ws
    /\ ctor' = IF passes[k].w = 0
               THEN (IF res = "ok" THEN "watch" ELSE "failed")
               ELSE ctor

\* The loop of lines 211-217 is not entered when there is no applicable tool.
Goto(k, pc) ==
    IF pc = "add" /\ passes[k].appl = << >> THEN NextPc("add") ELSE pc

\* internalk8s.NewProvider fails: return err (lines 156-159).
NewProviderFails(k) ==
    /\ passes[k].pc = "newprov"
    /\ passes' = [passes EXCEPT ![k].res = "errProvider", ![k].pc = "done",
                                ![k].postEnabled = enabledTools,
                                ![k].postAdv = serverTools]
    /\ Returned(k, "errProvider", watchers)
    /\ UNCHANGED << sp, enabledTools, serverTools, provs >>
    /\ PassVarsUnchanged

\* internalk8s.NewProvider succeeds (line 156): the provider holds the
\* targets the kubeconfig describes now.
NewProvider(k) ==
    /\ passes[k].pc = "newprov"
    /\ provs' = Append(provs, [targets |-> targets, closed |-> FALSE, watch |-> 0])
    /\ passes' = [passes EXCEPT ![k].p = Len(provs) + 1,
                                ![k].pc = NextPc("newprov")]
    /\ UNCHANGED << ctor, sp, enabledTools, serverTools, watchers >>
    /\ PassVarsUnchanged

\* if s.p != nil { s.p.Close() } (lines 162-164).
CloseOld(k) ==
    /\ passes[k].pc = "closeold"
    /\ IF sp # 0
       THEN /\ provs' = CloseProvider(provs, sp)
            /\ watchers' = CloseWatchOf(watchers, provs, sp)
       ELSE UNCHANGED << provs, watchers >>
    /\ passes' = [passes EXCEPT ![k].pc = NextPc("closeold")]
    /\ UNCHANGED << ctor, sp, enabledTools, serverTools >>
    /\ PassVarsUnchanged

\* s.p = p (line 166), then p.GetTargets fails: return err (lines 168-171).
GetTargetsFails(k) ==
    /\ passes[k].pc = "setp"
    /\ sp' = passes[k].p
    /\ passes' = [passes EXCEPT ![k].res = "errTargets", ![k].pc = "done",
                                ![k].postEnabled = enabledTools,
                                ![k].postAdv = serverTools]
    /\ Returned(k, "errTargets", watchers)
    /\ UNCHANGED << enabledTools, serverTools, provs >>
    /\ PassVarsUnchanged

\* s.p = p (line 166), then p.GetTargets succeeds; filter and mutator are
\* built from the targets (lines 168-182).
GetTargets(k) ==
    /\ passes[k].pc = "setp"
    /\ sp' = passes[k].p
    /\ passes' = [passes EXCEPT ![k].tg = IF passes[k].p = 0 THEN {}
                                          ELSE provs[passes[k].p].targets,
                                ![k].pc = NextPc("setp")]
    /\ UNCHANGED << ctor, enabledTools, serverTools, provs, watchers >>
    /\ PassVarsUnchanged

\* previousTools := s.enabledTools; s.enabledTools = make([]string, 0)
\* (lines 185-189).
Begin(k) ==
    /\ passes[k].pc = "begin"
    /\ enabledTools' = << >>
    /\ passes' = [passes EXCEPT ![k].prev = enabledTools,
                                ![k].wrote = TRUE,
                                ![k].appl = << >>,
                                ![k].i = 1,
                                ![k].pc = NextPc("begin")]
    /\ UNCHANGED << ctor, sp, serverTools, provs, watchers >>
    /\ PassVarsUnchanged

\* One iteration of the loop of lines 190-200: mutate, filter, collect.
Loop(k) ==
    /\ passes[k].pc = "loop"
    /\ passes[k].i <= Len(CatalogTools)
    /\ LET tool == WithTargetParameter(passes[k].tg, CatalogTools[passes[k].i])
       IN  IF ~CompositeFilter(input.config, passes[k].tg, tool)
           THEN /\ passes' = [passes EXCEPT ![k].i = @ + 1]
                /\ UNCHANGED enabledTools
           ELSE /\ passes' = [passes EXCEPT ![k].i = @ + 1,
                                            ![k].wrote = TRUE,
                                            ![k].appl = Append(@, tool)]
                /\ enabledTools' = Append(enabledTools, tool.name)
    /\ UNCHANGED << ctor, sp, serverTools, provs, watchers >>
    /\ PassVarsUnchanged

\* The loop has ended; toolsToRemove is computed against s.enabledTools
\* (lines 203-208).
Diff(k) ==
    /\ passes[k].pc = "loop"
    /\ passes[k].i > Len(CatalogTools)
    /\ passes' = [passes EXCEPT ![k].rem = ToolsToRemove(passes[k].prev, enabledTools),
                                ![k].j = 1,
                                ![k].pc = Goto(k, NextPc("loop"))]
    /\ UNCHANGED << ctor, sp, enabledTools, serverTools, provs, watchers >>
    /\ PassVarsUnchanged

\* s.server.RemoveTools(toolsToRemove...) (line 209).
Remove(k) ==
    /\ passes[k].pc = "remove"
    /\ serverTools' = RemoveTools(serverTools, passes[k].rem)
    /\ passes' = [passes EXCEPT ![k].ops = Append(@, "remove"),
                                ![k].wrote = TRUE,
                                ![k].pc = Goto(k, NextPc("remove"))]
    /\ UNCHANGED << ctor, sp, enabledTools, provs, watchers >>
    /\ PassVarsUnchanged

\* One iteration of the loop of lines 211-217 whose conversion succeeds:
\* s.server.AddTool.  The installed handler is the one this pass built.
Add(k) ==
    /\ passes[k].pc = "add"
    /\ passes[k].j <= Len(passes[k].appl)
    /\ ServerToolToGoSdkTool(passes[k].appl[passes[k].j])
    /\ serverTools' = AddTool(serverTools,
                              [name |-> passes[k].appl[passes[k].j].name,
                               def |-> passes[k].appl[passes[k].j],
                               pass |-> k])
    /\ passes' = [passes EXCEPT ![k].ops = Append(@, "add"),
                                ![k].wrote = TRUE,
                                ![k].j = @ + 1,
                                ![k].pc = IF passes[k].j < Len(passes[k].appl)
                                          THEN "add" ELSE NextPc("add")]
    /\ UNCHANGED << ctor, sp, enabledTools, provs, watchers >>
    /\ PassVarsUnchanged

\* ServerToolToGoSdkTool fails: return the error (lines 212-215).
AddFails(k) ==
    /\ passes[k].pc = "add"
    /\ passes[k].j <= Len(passes[k].appl)
    /\ ~ServerToolToGoSdkTool(passes[k].appl[passes[k].j])
    /\ passes' = [passes EXCEPT ![k].res = "errConvert", ![k].pc = "done",
                                ![k].postEnabled = enabledTools,
                                ![k].postAdv = serverTools]
    /\ Returned(k, "errConvert", watchers)
    /\ UNCHANGED << sp, enabledTools, serverTools, provs >>
    /\ PassVarsUnchanged

\* s.p.WatchTargets(s.reloadKubernetesClusterProvider); return nil
\* (lines 220-221).
Watch(k) ==
    /\ passes[k].pc = "watch"
    /\ provs' = IF sp # 0 THEN WatchedProvs(provs, watchers, sp) ELSE provs
    /\ Returned(k, "ok", IF sp # 0 THEN WatchedWatchers(provs, watchers, sp)
                         ELSE watchers)
    /\ passes' = [passes EXCEPT ![k].res = "ok", ![k].pc = "done",
                                ![k].wp = sp,
                                ![k].postEnabled = enabledTools,
                                ![k].postAdv = serverTools]
    /\ UNCHANGED << sp, enabledTools, serverTools >>
    /\ PassVarsUnchanged

Pass(k) ==
    \/ NewProviderFails(k)
    \/ NewProvider(k)
    \/ CloseOld(k)
    \/ GetTargetsFails(k)
    \/ GetTargets(k)
    \/ Begin(k)
    \/ Loop(k)
    \/ Diff(k)
    \/ Remove(k)
    \/ Add(k)
    \/ AddFails(k)
    \/ Watch(k)

Next ==
    \/ RegisterResourcesFails
    \/ RegisterResources
    \/ CtorWatchTargets
    \/ Close
    \/ \E T \in TargetSets : KubeConfigEvent(T)
    \/ \E w \in 1..Len(watchers) : Deliver(w)
    \/ \E k \in 1..MaxPasses : Pass(k)

Spec == Init /\ [][Next]_vars

\* ------------------------------------------- runs of the applicability filter
\* The initial pass of NewExtendableServer under every combination of the
\* configuration's flags and lists, over a catalog whose tools carry the
\* combinations of the read-only and destructive annotations.
MoreTools ==
    << ServerTool("events_list", "unset", "unset", FALSE, TRUE),
       ServerTool("pods_exec", "false", "false", FALSE, TRUE),
       ServerTool("nodes_drain", "true", "true", FALSE, TRUE) >>

FilterCatalog ==
    ExtCatalog \o << [name |-> "more", tools |-> MoreTools, resources |-> << >>] >>

\* StaticConfig.EnabledTools and DisabledTools: absent, present with no
\* entry, present with entries.
ToolLists == { NilSlice, Slice(<< >>), Slice(<< "pods_list", "pods_delete" >>) }

FilterConfigs ==
    [ReadOnly : BOOLEAN, DisableDestructive : BOOLEAN,
     EnabledTools : ToolLists, DisabledTools : ToolLists]

FilterInputs ==
    { [config |-> c, catalog |-> FilterCatalog, bad |-> {}] : c \in FilterConfigs }

FilterInit ==
    /\ input \in FilterInputs
    /\ targets \in TargetSets
    /\ nEvents = 0
    /\ ctor = "register"
    /\ resources = << >>
    /\ sp = 0
    /\ enabledTools = << >>
    /\ serverTools = {}
    /\ provs = << >>
    /\ watchers = << >>
    /\ passes = [k \in 1..MaxPasses |-> NoPass]
    /\ npass = 0
    /\ userClosed = FALSE
    /\ call = NoCall
    /\ http = NoHttp

FilterNext ==
    \/ RegisterResources
    \/ CtorWatchTargets
    \/ NewProvider(1)
    \/ CloseOld(1)
    \/ GetTargets(1)
    \/ Begin(1)
    \/ Loop(1)
    \/ Diff(1)
    \/ Remove(1)
    \/ Add(1)
    \/ Watch(1)

FilterSpec == FilterInit /\ [][FilterNext]_vars

\* ------------------------------------------------- runs with a tool call
\* A client calls an advertised tool: the call is dispatched to the handler
\* installed for the name and is routed through the provider that is
\* current at dispatch.  quiet records that no pass was in flight then.
CallStart(n) ==
    /\ ctor = "done"
    /\ call.st = "none"
    /\ sp # 0
    /\ n \in AdvertisedNames
    /\ call' = [st |-> "running", name |-> n, p |-> sp, quiet |-> (InFlight = {})]
    /\ UNCHANGED << input, targets, nEvents, ctor, resources, sp, enabledTools,
                    serverTools, provs, watchers, passes, npass, userClosed,
                    http >>

\* The handler returns.
CallEnd ==
    /\ call.st = "running"
    /\ call' = [NoCall EXCEPT !.st = "done"]
    /\ UNCHANGED << input, targets, nEvents, ctor, resources, sp, enabledTools,
                    serverTools, provs, watchers, passes, npass, userClosed,
                    http >>

CallInputs ==
    { [config |-> DefaultConfig, catalog |-> BaseCatalog, bad |-> {}] }

CallInit ==
    /\ input \in CallInputs
    /\ targets \in TargetSets
    /\ nEvents = 0
    /\ ctor = "register"
    /\ resources = << >>
    /\ sp = 0
    /\ enabledTools = << >>
    /\ serverTools = {}
    /\ provs = << >>
    /\ watchers = << >>
    /\ passes = [k \in 1..MaxPasses |-> NoPass]
    /\ npass = 0
    /\ userClosed = FALSE
    /\ call = NoCall
    /\ http = NoHttp

CallNext ==
    \/ RegisterResources
    \/ CtorWatchTargets
    \/ \E T \in TargetSets : KubeConfigEvent(T)
    \/ \E w \in 1..Len(watchers) : Deliver(w)
    \/ \E k \in 1..MaxPasses :
          \/ NewProvider(k)
          \/ CloseOld(k)
          \/ GetTargets(k)
          \/ Begin(k)
          \/ Loop(k)
          \/ Diff(k)
          \/ Remove(k)
          \/ Add(k)
          \/ Watch(k)
    \/ \E n \in { "pods_list", "contexts_list" } : CallStart(n)
    \/ CallEnd

CallSpec == CallInit /\ [][CallNext]_vars

\* ------------------------------------------- AuthorizationMiddleware runs
\* The server's variables, which the middleware does not touch.
AuthUnchanged ==
    UNCHANGED << input, targets, nEvents, ctor, resources, sp, enabledTools,
                 serverTools, provs, watchers, passes, npass, userClosed,
                 call >>

\* next.ServeHTTP(w, r) with the handler's own r (lines 211, 215, 240): the
\* next handler gets the headers of r, the bytes r.Body yields and the
\* context of r.
ServeNext(h) ==
    [h EXCEPT !.pc = "done",
              !.nextCalls = @ + 1,
              !.fwd = [header |-> h.header,
                       body |-> ReadAll(h.origBody, h.conn),
                       scopes |-> h.origCtx]]

\* write401 (lines 67-70).
write401(h, errorType) ==
    [h EXCEPT !.pc = "done",
              !.status = 401,
              !.challenge = wwwAuthenticateHeader(h.cfg, errorType)]

\* The guard "if err == nil" of lines 89, 94, 99, 106 and 116 as always
\* true.
ErrIsNilAlways(err) == TRUE

\* The guard "if err == nil" of lines 89, 94, 99, 106 and 116.
ErrIsNil(err) == err = NoErr

\* A call validateToken makes, with its outcome.
Called(h, step, err) ==
    [h EXCEPT !.steps = Append(@, step),
              !.failed = Append(@, err # NoErr),
              !.err = err]

\* Lines 210-213: health and well-known endpoints go to the next handler.
Unprotected ==
    /\ http.pc = "start"
    /\ IsUnprotected(http.url)
    /\ http' = ServeNext(http)
    /\ AuthUnchanged

\* Lines 214-217: without RequireOAuth the request goes to the next handler.
OAuthNotRequired ==
    /\ http.pc = "start"
    /\ ~IsUnprotected(http.url)
    /\ ~http.cfg.RequireOAuth
    /\ http' = ServeNext(http)
    /\ AuthUnchanged

\* Lines 219-229: no Authorization header, or not a Bearer one.
MissingToken ==
    /\ http.pc = "start"
    /\ ~IsUnprotected(http.url)
    /\ http.cfg.RequireOAuth
    /\ http.header = << >> \/ ~HasPrefix(http.header, "Bearer ")
    /\ http' = write401(http, "missing_token")
    /\ AuthUnchanged

\* Lines 231-233: the token is the header without its prefix; validateToken
\* is entered.
TakeToken ==
    /\ http.pc = "start"
    /\ ~IsUnprotected(http.url)
    /\ http.cfg.RequireOAuth
    /\ ~(http.header = << >> \/ ~HasPrefix(http.header, "Bearer "))
    /\ http' = [http EXCEPT !.token = TrimPrefix(http.header, "Bearer "),
                            !.pc = "parse"]
    /\ AuthUnchanged

\* Lines 83-86.
ParseClaims ==
    /\ http.pc = "parse"
    /\ LET res == ParseJWTClaims(http.token)
           err == IF res.err = NoErr /\ res.claims.isNil THEN "parse" ELSE res.err
       IN  http' = [Called(http, "parse", err) EXCEPT !.claims = res.claims,
                                                      !.pc = "offline"]
    /\ AuthUnchanged

\* Lines 89-91.
OfflineValidation ==
    /\ http.pc = "offline"
    /\ http' = IF ErrIsNil(http.err)
               THEN [Called(http, "offline",
                            ValidateOffline(http.claims, http.cfg.OAuthAudience))
                        EXCEPT !.pc = "provider"]
               ELSE [http EXCEPT !.pc = "provider"]
    /\ AuthUnchanged

\* Lines 94-96.
ProviderValidation ==
    /\ http.pc = "provider"
    /\ http' = IF ErrIsNil(http.err)
               THEN [Called(http, "provider",
                            ValidateWithProvider(http.claims, http.cfg.OAuthAudience,
                                                 http.cfg.oidc))
                        EXCEPT !.pc = "scopes"]
               ELSE [http EXCEPT !.pc = "scopes"]
    /\ AuthUnchanged

\* Lines 99-103: r.WithContext returns a shallow copy of the request, which
\* shares the header map and the body with the original; validateToken's r
\* is the copy from here on.
PropagateScopes ==
    /\ http.pc = "scopes"
    /\ http' = IF ErrIsNil(http.err)
               THEN [http EXCEPT !.r = "copy",
                                 !.copyBody = http.origBody,
                                 !.copyCtx = WithScopes(GetScopes(http.claims)),
                                 !.pc = "exchange"]
               ELSE [http EXCEPT !.pc = "exchange"]
    /\ AuthUnchanged

\* exchangeTokenIfNeeded (lines 124-151) leaving the header as it is.
exchangeTokenIfNeededKeepsHeader(h, outcome) ==
    IF ~h.cfg.sts THEN [token |-> << >>, err |-> NoErr, header |-> h.header]
    ELSE IF outcome = "error"
         THEN [token |-> << >>, err |-> "exchange", header |-> h.header]
         ELSE [token |-> << outcome >>, err |-> NoErr, header |-> h.header]

\* exchangeTokenIfNeeded (lines 124-151): the exchanged token, the error and
\* the Authorization header afterwards; outcome is what the token endpoint
\* answers.
exchangeTokenIfNeeded(h, outcome) ==
    IF ~h.cfg.sts THEN [token |-> << >>, err |-> NoErr, header |-> h.header]
    ELSE IF outcome = "error"
         THEN [token |-> << >>, err |-> "exchange", header |-> h.header]
         ELSE [token |-> << outcome >>, err |-> NoErr,
               header |-> << "Bearer ", outcome >>]

\* Lines 106-113.
TokenExchange(outcome) ==
    /\ http.pc = "exchange"
    /\ http' =
         IF ErrIsNil(http.err)
         THEN LET x == exchangeTokenIfNeeded(http, outcome)
                  parsed == ParseJWTClaims(x.token)
                  h == [http EXCEPT !.header = x.header,
                                    !.exchanged = x.token,
                                    !.pc = "review"]
              IN  IF x.err # NoErr THEN Called(h, "exchange", x.err)
                  ELSE IF x.token # << >>
                       THEN [Called(h, "exchange", parsed.err)
                                EXCEPT !.claims = parsed.claims]
                       ELSE Called(h, "exchange", NoErr)
         ELSE [http EXCEPT !.pc = "review"]
    /\ AuthUnchanged

\* Lines 116-118 with validateTokenWithKubernetes (lines 154-161).
TokenReview ==
    /\ http.pc = "review"
    /\ http' =
         IF ErrIsNil(http.err) /\ http.cfg.ValidateToken
         THEN LET mine == IF http.r = "copy" THEN http.copyBody ELSE http.origBody
                  x == extractTargetFromRequest(mine, http.conn, TargetParameterName)
                  h == Called(http, "review",
                              ValidateWithKubernetesApi(http.claims,
                                                        http.cfg.OAuthAudience,
                                                        x.cluster))
              IN  [h EXCEPT !.conn = x.conn,
                            !.copyBody = IF http.r = "copy" THEN x.body ELSE @,
                            !.origBody = IF http.r = "copy" THEN @ ELSE x.body,
                            !.reviewed = [done |-> TRUE, token |-> http.claims.Token,
                                          cluster |-> x.cluster],
                            !.pc = "result"]
         ELSE [http EXCEPT !.pc = "result"]
    /\ AuthUnchanged

\* Lines 234-238.
InvalidToken ==
    /\ http.pc = "result"
    /\ http.err # NoErr
    /\ http' = write401(http, "invalid_token")
    /\ AuthUnchanged

\* Line 240.
Forward ==
    /\ http.pc = "result"
    /\ http.err = NoErr
    /\ http' = ServeNext(http)
    /\ AuthUnchanged

\* A constructed server is not needed to follow a request: the verifier is
\* taken to be one that has a provider.
AuthInit ==
    /\ input \in CallInputs
    /\ targets = {"prod"}
    /\ nEvents = 0
    /\ ctor = "register"
    /\ resources = << >>
    /\ sp = 0
    /\ enabledTools = << >>
    /\ serverTools = {}
    /\ provs = << >>
    /\ watchers = << >>
    /\ passes = [k \in 1..MaxPasses |-> NoPass]
    /\ npass = 0
    /\ userClosed = FALSE
    /\ call = NoCall
    /\ http \in AuthRequests

AuthNext ==
    \/ Unprotected
    \/ OAuthNotRequired
    \/ MissingToken
    \/ TakeToken
    \/ ParseClaims
    \/ OfflineValidation
    \/ ProviderValidation
    \/ PropagateScopes
    \/ \E outcome \in { "error" } \cup ExchangedTokens : TokenExchange(outcome)
    \/ TokenReview
    \/ InvalidToken
    \/ Forward

AuthSpec == AuthInit /\ [][AuthNext]_vars

\* ------------------------------------------------------------------ claims
Passes == 1..MaxPasses

ToolNamesOf(tools) == { tools[x].name : x \in 1..Len(tools) }

\* What a client sees of an installed tool: its name and its definition.
Visible(installed) == { [name |-> t.name, def |-> t.def] : t \in installed }

ResolveError(k) ==
    passes[k].pc = "done" /\ passes[k].res \in {"errProvider", "errTargets"}

ConvertError(k) == passes[k].pc = "done" /\ passes[k].res = "errConvert"

Succeeded(k) == passes[k].pc = "done" /\ passes[k].res = "ok"

\* C1: a pass that returns the error of NewProvider or of GetTargets has
\* issued no RemoveTools and no AddTool, has written neither s.enabledTools
\* nor the protocol server, and, no other pass having run meanwhile, leaves
\* the installed tools and the GetEnabledTools list as they were at its start.
C1_ResolveErrorChangesNothing ==
    \A k \in Passes :
        ResolveError(k) =>
            /\ passes[k].ops = << >>
            /\ ~passes[k].wrote
            /\ passes[k].alone =>
                   /\ passes[k].postEnabled = passes[k].preEnabled
                   /\ passes[k].postAdv = passes[k].preAdv

\* C1 witness: a pass on the built server has returned the GetTargets error
\* when tools were enabled and installed.
C1_Witness ==
    \E k \in Passes :
        /\ passes[k].pc = "done"
        /\ passes[k].res = "errTargets"
        /\ passes[k].built
        /\ passes[k].alone
        /\ passes[k].preEnabled # << >>
        /\ passes[k].preAdv # {}

\* C2 (as claimed): a pass on the built server that returns a conversion
\* error (no other pass with it) leaves the installed tools and the
\* GetEnabledTools list as they were at its start.
C2_ConvertErrorKeepsState ==
    \A k \in Passes :
        (ConvertError(k) /\ passes[k].built /\ passes[k].alone) =>
            /\ passes[k].postAdv = passes[k].preAdv
            /\ passes[k].postEnabled = passes[k].preEnabled

\* C3 (as claimed): at most one execution of
\* reloadKubernetesClusterProvider is between its start and its return.
C3_PassesSerialized == Cardinality(InFlight) <= 1

\* C4: in the operations a pass has issued against the protocol server,
\* every remove comes before every add.
C4_RemovesBeforeAdds ==
    \A k \in Passes :
        \A x, y \in 1..Len(passes[k].ops) :
            (passes[k].ops[x] = "add" /\ passes[k].ops[y] = "remove") => y < x

\* C4 witness: a pass has removed a tool name and then added tools.
C4_Witness ==
    \E k \in Passes :
        /\ passes[k].pc = "done"
        /\ passes[k].rem # << >>
        /\ Len(passes[k].ops) >= 3
        /\ passes[k].ops[1] = "remove"
        /\ passes[k].ops[Len(passes[k].ops)] = "add"

\* C5 (as claimed): while a pass runs on the built server (no other pass
\* with it), a reader sees the enabled names and the advertised names
\* either as they were at the start of the pass or as the pass leaves them.
C5_ReaderSeesPreOrPost ==
    \A k \in Passes :
        ( /\ Running(k)
          /\ passes[k].alone
          /\ passes[k].built
          /\ passes[k].pc \notin {"newprov", "closeold", "setp"} ) =>
            LET new == ApplicableTools(input.config, passes[k].tg)
                names == [ x \in 1..Len(new) |-> new[x].name ]
            IN  /\ GetEnabledTools = passes[k].preEnabled \/ GetEnabledTools = names
                /\ \/ AdvertisedNames = { t.name : t \in passes[k].preAdv }
                   \/ AdvertisedNames = ToolNamesOf(new)

\* C6 (as claimed): a pass on the built server that ends with an error (no
\* other pass with it) does not empty the advertised tool set, and after it
\* a client sees the tools it saw before.
C6_ErrorKeepsAdvertised ==
    \A k \in Passes :
        ( /\ passes[k].pc = "done"
          /\ passes[k].res # "ok"
          /\ passes[k].built
          /\ passes[k].alone ) =>
            /\ passes[k].preAdv # {} => passes[k].postAdv # {}
            /\ Visible(passes[k].postAdv) = Visible(passes[k].preAdv)

\* C7 (as claimed): in a successful pass the names removed are the
\* previously enabled names that are not names of the pass's applicable
\* tools, and at its return the advertised names are the names of its
\* applicable tools.
C7_RemovedIsPreviousMinusNew ==
    \A k \in Passes :
        Succeeded(k) =>
            /\ Range(passes[k].rem) = Range(passes[k].prev) \ ToolNamesOf(passes[k].appl)
            /\ { t.name : t \in passes[k].postAdv } = ToolNamesOf(passes[k].appl)

\* C8: when a successful pass b is the next pass after a successful pass a,
\* started after a returned, no other pass running with either of them, and
\* b resolves the same targets as a, then b leaves the advertised names and
\* the GetEnabledTools list as a left them and removes no name.
C8_Idempotent ==
    \A a, b \in Passes :
        ( /\ Succeeded(a) /\ Succeeded(b)
          /\ passes[a].alone
          /\ passes[b].alone
          /\ passes[b].after = a
          /\ passes[b].tg = passes[a].tg ) =>
            /\ { t.name : t \in passes[b].postAdv } = { t.name : t \in passes[a].postAdv }
            /\ passes[b].postEnabled = passes[a].postEnabled
            /\ passes[b].rem = << >>

\* C8 witness: two such consecutive passes have run on a server with
\* several targets, the second one started by a watcher.
C8_Witness ==
    \E a, b \in Passes :
        /\ Succeeded(a) /\ Succeeded(b)
        /\ passes[a].alone /\ passes[b].alone
        /\ passes[b].after = a
        /\ passes[b].tg = passes[a].tg
        /\ Cardinality(passes[b].tg) = 2
        /\ Len(passes[b].postEnabled) >= 2

\* C9 (as claimed): after a pass on the built server returned the
\* GetTargets error (the server not closed, no later pass started), some
\* watcher is open on a provider that is not closed.
C9_WatchArmedAfterResolveError ==
    \A k \in Passes :
        ( /\ passes[k].pc = "done"
          /\ passes[k].res = "errTargets"
          /\ passes[k].built
          /\ passes[k].alone
          /\ npass = k
          /\ ~userClosed ) =>
            \E w \in 1..Len(watchers) :
                watchers[w].open /\ ~provs[watchers[w].prov].closed

\* The server is built, no pass is running, no event waits in an open
\* watcher, no pass has failed and Close was not called.
Quiescent ==
    /\ ctor = "done"
    /\ ~userClosed
    /\ InFlight = {}
    /\ \A w \in 1..Len(watchers) : watchers[w].open => watchers[w].pending = 0
    /\ \A k \in Passes : passes[k].pc = "done" => passes[k].res = "ok"

\* C10 (as claimed): no target change is lost, so when nothing is left to
\* run the installed tools were built by a pass that resolved the targets
\* the kubeconfig describes now.
C10_FinalTargetsReconciled ==
    Quiescent =>
        /\ \A t \in serverTools : passes[t.pass].tg = targets
        /\ AdvertisedNames = ToolNamesOf(ApplicableTools(input.config, targets))

\* The AddTool calls a pass has issued.
Adds(k) ==
    Cardinality({ x \in 1..Len(passes[k].ops) : passes[k].ops[x] = "add" })

\* C11 (as claimed): a successful pass has issued one AddTool per applicable
\* tool, and at its return every installed handler is the one that pass
\* built.
C11_EveryHandlerReinstalled ==
    \A k \in Passes :
        Succeeded(k) =>
            /\ Adds(k) = Len(passes[k].appl)
            /\ \A t \in passes[k].postAdv : t.pass = k

\* C12 (as claimed): the WatchTargets call at the end of a successful pass
\* goes to the provider that pass created.
C12_WatchOnOwnProvider ==
    \A k \in Passes :
        Succeeded(k) => passes[k].wp = passes[k].p

\* The pass has left the loop of lines 190-200.
LoopDone(k) == passes[k].pc \in {"remove", "add", "watch"} \/ Succeeded(k)

\* C13: with ReadOnly set, every applicable tool a pass collects and every
\* installed tool has the read-only annotation true, and a catalog tool
\* whose read-only annotation is unset is not among the applicable tools.
C13_ReadOnlyKeepsOnlyReadOnly ==
    input.config.ReadOnly =>
        /\ \A k \in Passes : \A x \in 1..Len(passes[k].appl) :
               passes[k].appl[x].readOnly = "true"
        /\ \A t \in serverTools : t.def.readOnly = "true"
        /\ \A k \in Passes : LoopDone(k) =>
               \A x \in 1..Len(CatalogTools) :
                   CatalogTools[x].readOnly = "unset" =>
                       WithTargetParameter(passes[k].tg, CatalogTools[x])
                           \notin Range(passes[k].appl)

\* C13 witness: the initial pass has succeeded under ReadOnly with no allow
\* or deny list, has installed tools, and left out a catalog tool whose
\* read-only annotation is unset.
C13_Witness ==
    /\ input.config.ReadOnly
    /\ input.config.EnabledTools.isNil
    /\ input.config.DisabledTools.isNil
    /\ Succeeded(1)
    /\ serverTools # {}
    /\ \E x \in 1..Len(CatalogTools) :
           /\ CatalogTools[x].readOnly = "unset"
           /\ CatalogTools[x].name \notin AdvertisedNames

\* C14: with DisableDestructive set, no applicable tool a pass collects and
\* no installed tool has the destructive annotation true, and, the other
\* rules excluding nothing, a catalog tool whose destructive annotation is
\* unset is among the applicable tools.
C14_NoDestructiveWhenDisabled ==
    input.config.DisableDestructive =>
        /\ \A k \in Passes : \A x \in 1..Len(passes[k].appl) :
               passes[k].appl[x].destructive # "true"
        /\ \A t \in serverTools : t.def.destructive # "true"
        /\ \A k \in Passes :
               ( /\ LoopDone(k)
                 /\ ~input.config.ReadOnly
                 /\ input.config.EnabledTools.isNil
                 /\ input.config.DisabledTools.isNil ) =>
                   \A x \in 1..Len(CatalogTools) :
                       ( /\ CatalogTools[x].destructive = "unset"
                         /\ ~CatalogTools[x].targetList ) =>
                           WithTargetParameter(passes[k].tg, CatalogTools[x])
                               \in Range(passes[k].appl)

\* C14 witness: the initial pass has succeeded under DisableDestructive with
\* no other rule set, has left out a destructive catalog tool and installed
\* one whose destructive annotation is unset.
C14_Witness ==
    /\ input.config.DisableDestructive
    /\ ~input.config.ReadOnly
    /\ input.config.EnabledTools.isNil
    /\ input.config.DisabledTools.isNil
    /\ Succeeded(1)
    /\ \E x \in 1..Len(CatalogTools) :
           /\ CatalogTools[x].destructive = "true"
           /\ CatalogTools[x].name \notin AdvertisedNames
    /\ \E t \in serverTools : t.def.destructive = "unset"

\* A list that has entries.
NonEmpty(list) == ~list.isNil /\ list.elems # << >>

\* The four rules as the claim states them: the lists apply when non-empty.
FourRules(c, tool) ==
    /\ c.ReadOnly => tool.readOnly = "true"
    /\ c.DisableDestructive => tool.destructive # "true"
    /\ NonEmpty(c.EnabledTools) => Contains(c.EnabledTools.elems, tool.name)
    /\ NonEmpty(c.DisabledTools) => ~Contains(c.DisabledTools.elems, tool.name)

\* C15 (as claimed): the tools a pass collects are the catalog tools that
\* satisfy the conjunction of the four rules (and the target-list rule),
\* where an allow or deny list without entries excludes no tool.
C15_ListsApplyOnlyWhenNonEmpty ==
    \A k \in Passes :
        LoopDone(k) =>
            passes[k].appl =
                SelectSeq([ x \in 1..Len(CatalogTools) |->
                              WithTargetParameter(passes[k].tg, CatalogTools[x]) ],
                          LAMBDA tool :
                              /\ FourRules(input.config, tool)
                              /\ ShouldIncludeTargetListTool(passes[k].tg, tool))

\* C16 (as claimed): at the return of a successful pass the list-targets
\* meta-tool is installed, and the installed tools carry the target
\* parameter, if and only if the pass resolved two or more targets.
C16_MetaToolIffMultiTarget ==
    \A k \in Passes :
        Succeeded(k) =>
            LET multi == Cardinality(passes[k].tg) >= 2
            IN  /\ (\E t \in passes[k].postAdv : t.def.targetList) <=> multi
                /\ \A t \in passes[k].postAdv : t.def.param <=> multi

\* C17 (as claimed): while a tool call that was dispatched when no pass was
\* in flight is running, the provider it is routed through is not closed.
C17_CallKeepsItsProvider ==
    (call.st = "running" /\ call.quiet) => ~provs[call.p].closed

\* No element occurs twice in s.
NoDup(s) == \A x, y \in 1..Len(s) : s[x] = s[y] => x = y

\* C18 (as claimed): at the return of a successful pass no name occurs twice
\* in the GetEnabledTools list or among the installed tools, and (no other
\* pass with it) the definition installed for a name is the last one of that
\* name in catalog order.
C18_NoDuplicateNames ==
    \A k \in Passes :
        Succeeded(k) =>
            /\ NoDup(passes[k].postEnabled)
            /\ \A t, u \in passes[k].postAdv : t.name = u.name => t = u
            /\ passes[k].alone =>
                   \A t \in passes[k].postAdv :
                       \E x \in 1..Len(passes[k].appl) :
                           /\ passes[k].appl[x] = t.def
                           /\ \A y \in (x + 1)..Len(passes[k].appl) :
                                  passes[k].appl[y].name # t.name

\* C19: once registerResources has returned without error, every resource a
\* toolset offers has been added to the protocol server exactly once, and
\* from then on no step, of any pass, changes the registered resources.
C19_ResourcesRegisteredOnce ==
    /\ [](ctor \in {"reload", "watch", "done"} =>
            /\ \A x \in 1..Len(Toolsets) :
                   \A r \in Range(Toolsets[x].resources) :
                       Cardinality({ y \in 1..Len(resources) : resources[y] = r }) = 1
            /\ \A y \in 1..Len(resources) :
                   \E x \in 1..Len(Toolsets) :
                       resources[y] \in Range(Toolsets[x].resources))
    /\ [][ctor # "register" => resources' = resources]_vars

\* C19 witness: every pass the bound allows has run, one of them on the
\* built server, in a run whose catalog offers resources.
C19_Witness ==
    /\ resources # << >>
    /\ npass = MaxPasses
    /\ \A k \in Passes : passes[k].pc = "done"
    /\ \E k \in Passes : Succeeded(k) /\ passes[k].built

\* C20 (as claimed): a failing registerResources leaves no provider and no
\* pass; a failing initial pass makes NewExtendableServer return the error;
\* and when NewExtendableServer returns the server, exactly one pass has
\* completed successfully.
C20_ConstructorOutcome ==
    [][ /\ (ctor = "register" /\ ctor' = "failed") =>
               (npass' = 0 /\ provs' = << >>)
        /\ (passes[1].pc # "done" /\ passes'[1].pc = "done"
                /\ passes'[1].res # "ok") => ctor' = "failed"
        /\ (ctor = "watch" /\ ctor' = "done") =>
               Cardinality({ k \in Passes : Succeeded(k) }) = 1 ]_vars

\* The names of a sequence of tools, in order.
NamesSeq(tools) == [ x \in 1..Len(tools) |-> tools[x].name ]

\* C24 (as claimed): at the return of a successful pass the names in the
\* GetEnabledTools list are the names of the installed tools, and the list
\* is in catalog order.
C24_EnabledNamesAreAdvertised ==
    \A k \in Passes :
        Succeeded(k) =>
            /\ Range(passes[k].postEnabled) = { t.name : t \in passes[k].postAdv }
            /\ passes[k].postEnabled =
                   NamesSeq(ApplicableTools(input.config, passes[k].tg))

\* The policy predicate's verdict on a tool under configuration c.
PolicyAllows(c, tool) ==
    /\ c.ReadOnly => tool.readOnly = "true"
    /\ c.DisableDestructive => tool.destructive # "true"
    /\ ~c.EnabledTools.isNil =>
           \E x \in 1..Len(c.EnabledTools.elems) : c.EnabledTools.elems[x] = tool.name
    /\ ~c.DisabledTools.isNil =>
           \A x \in 1..Len(c.DisabledTools.elems) : c.DisabledTools.elems[x] # tool.name

\* C25: while and after a pass runs the loop of lines 190-200, the tools it
\* has collected are, in catalog order, the mutated definitions of the
\* catalog tools visited so far for which the policy predicate and the
\* list-targets predicate both hold, and the names recorded in
\* s.enabledTools by the initial pass are the names of the collected tools.
C25_MutatedThenFiltered ==
    \A k \in Passes :
        passes[k].i >= 1 =>
            LET mutated == [ x \in 1..(passes[k].i - 1) |->
                               [CatalogTools[x] EXCEPT
                                   !.param = Cardinality(passes[k].tg) > 1] ]
            IN  /\ passes[k].appl =
                       SelectSeq(mutated,
                                 LAMBDA tool :
                                     /\ PolicyAllows(input.config, tool)
                                     /\ tool.targetList =>
                                            Cardinality(passes[k].tg) >= 2)
                /\ (k = 1 /\ npass = 1) => enabledTools = NamesSeq(passes[k].appl)

\* C25 witness: the initial pass has succeeded with two targets; it has
\* collected the list-targets tool and other tools, all with the target
\* parameter, and has left out some catalog tool.
C25_Witness ==
    /\ Succeeded(1)
    /\ Cardinality(passes[1].tg) = 2
    /\ Len(passes[1].appl) >= 2
    /\ Len(passes[1].appl) < Len(CatalogTools)
    /\ \A x \in 1..Len(passes[1].appl) : passes[1].appl[x].param
    /\ \E x \in 1..Len(passes[1].appl) : passes[1].appl[x].targetList

\* The providers that are not closed.
OpenProviders == { p \in 1..Len(provs) : ~provs[p].closed }

\* C29 (as claimed): until Close is called the current provider is not a
\* closed one, and when no pass is in flight the only provider that is not
\* closed is the current one.
C29_OnlyCurrentProviderOpen ==
    ~userClosed =>
        /\ sp # 0 => ~provs[sp].closed
        /\ (InFlight = {} /\ npass >= 1) => OpenProviders \subseteq {sp}

\* The watchers that are armed.
Armed == { w \in 1..Len(watchers) : watchers[w].open }

\* The pass started last has returned nil.
LastPassSucceeded ==
    \A k \in Passes : (passes[k].pc # "idle" /\ k = npass) => Succeeded(k)

\* C30 (as claimed): when NewExtendableServer has returned the server, no
\* pass is in flight and the last pass succeeded, exactly one watcher is
\* armed, and it is armed on the current provider.
C30_ExactlyOneCallbackArmed ==
    ( /\ ctor = "done"
      /\ ~userClosed
      /\ InFlight = {}
      /\ LastPassSucceeded ) =>
        /\ Cardinality(Armed) = 1
        /\ \A w \in Armed : watchers[w].prov = sp

\* The request is one the OAuth flow applies to.
OAuthApplies ==
    /\ http.pc # "none"
    /\ ~IsUnprotected(http.url)
    /\ http.cfg.RequireOAuth

\* validateToken was called and returned no error.
TokenValid == http.steps # << >> /\ http.err = NoErr

\* C21: for a request to a protected path with RequireOAuth set, the next
\* handler is invoked (once, nothing written) if and only if the
\* Authorization header starts with "Bearer " and validateToken returned no
\* error; otherwise the response is a 401 whose WWW-Authenticate header
\* carries the error missing_token (no Bearer header) or invalid_token
\* (validation failed) and the next handler is not invoked.
C21_NextOnlyForValidBearer ==
    OAuthApplies =>
        LET bearer == Len(http.sent) >= 1 /\ http.sent[1] = "Bearer "
        IN  /\ http.pc # "done" =>
                   http.nextCalls = 0 /\ http.status = 0
            /\ http.pc = "done" =>
                   IF bearer /\ TokenValid
                   THEN /\ http.nextCalls = 1
                        /\ http.status = 0
                        /\ http.challenge = NoChallenge
                   ELSE /\ http.nextCalls = 0
                        /\ http.status = 401
                        /\ http.challenge =
                               [realm |-> "Kubernetes MCP Server",
                                audience |-> http.cfg.OAuthAudience,
                                error |-> IF bearer THEN "invalid_token"
                                          ELSE "missing_token"]
            /\ ~bearer => http.steps = << >>

\* C21 witness: a protected request with a Bearer token has passed all of
\* validateToken, TokenReview included, and reached the next handler.
C21_Witness ==
    /\ OAuthApplies
    /\ http.pc = "done"
    /\ http.nextCalls = 1
    /\ http.reviewed.done

C23_ExchangedTokenIsReviewed ==
    /\ (http.cfg.sts /\ http.exchanged # << >>) =>
           /\ http.header = << "Bearer " >> \o http.exchanged
           /\ http.reviewed.done =>
                  /\ http.reviewed.token = http.exchanged
                  /\ http.reviewed.token # http.token
           /\ ( /\ http.pc \in { "result", "done" }
                /\ http.cfg.ValidateToken
                /\ ParseJWTClaims(http.exchanged).err = NoErr ) =>
                  http.reviewed.done
           /\ (http.pc = "done" /\ http.nextCalls = 1) =>
                  http.fwd.header = << "Bearer " >> \o http.exchanged
    /\ (http.pc # "none" /\ ~http.cfg.sts) =>
           /\ http.exchanged = << >>
           /\ http.header = http.sent
           /\ http.reviewed.done =>
                  /\ http.reviewed.token = http.token
                  /\ << "Bearer " >> \o http.reviewed.token = http.sent

\* C23 witness: the presented token was exchanged, the exchanged token was
\* reviewed and the request went on to the next handler.
C23_Witness ==
    /\ http.pc = "done"
    /\ http.cfg.sts
    /\ http.exchanged = << "xgood" >>
    /\ http.reviewed.done
    /\ http.nextCalls = 1

\* The calls of validateToken, in the order of lines 83-118.
ValidationOrder == << "parse", "offline", "provider", "exchange", "review" >>

\* C26: the calls validateToken has made are an initial part of parse,
\* offline, provider, exchange, review; only the last call made can have
\* failed, and the error is that call's; once validateToken is over, either
\* a call failed or all of parse, offline, provider and exchange were made,
\* and review was made exactly when ValidateToken is set and the four
\* before succeeded.
C26_StepsInOrderStopAtFirstFailure ==
    LET n == Len(http.steps)
        over == http.pc \in { "result", "done" } /\ n >= 1
    IN  /\ n <= Len(ValidationOrder)
        /\ \A x \in 1..n : http.steps[x] = ValidationOrder[x]
        /\ \A x \in 1..n : http.failed[x] => x = n
        /\ n >= 1 =>
               /\ http.err # NoErr <=> http.failed[n]
               /\ http.failed[n] =>
                      \/ http.err = http.steps[n]
                      \/ http.steps[n] = "exchange" /\ http.err = "parse"
        /\ over =>
               /\ ~http.failed[n] => n >= 4
               /\ n = 5 <=> (http.cfg.ValidateToken /\ n >= 4 /\ ~http.failed[4])

\* C26 witness: with ValidateToken set, the OIDC provider rejected the
\* token: validateToken made three calls and the request was answered 401.
C26_Witness ==
    /\ http.pc = "done"
    /\ http.cfg.ValidateToken
    /\ http.steps = << "parse", "offline", "provider" >>
    /\ http.err = "provider"
    /\ http.status = 401

\* C27 (as claimed): for a request that passes the middleware with
\* ValidateToken set, the body the next handler reads is the body the
\* client sent; and when the body is absent, is not a parseable request or
\* has no string target argument, the target extracted for the review is
\* empty.
C27_BodyIntactForNextHandler ==
    /\ (OAuthApplies /\ http.cfg.ValidateToken
           /\ http.pc = "done" /\ http.nextCalls = 1) =>
           http.fwd.body = http.body
    /\ ( /\ http.reviewed.done
         /\ \/ http.sentBody = NilBody
            \/ ~Unmarshal(http.body).ok
            \/ ~\E a \in Unmarshal(http.body).args :
                   a.name = TargetParameterName /\ a.isString ) =>
           http.reviewed.cluster = ""

\* C28 (as claimed): when the token passed validation, the request handed
\* to the next handler has the scopes of the presented token in its
\* context.
C28_ForwardedRequestCarriesScopes ==
    (OAuthApplies /\ http.pc = "done" /\ http.nextCalls = 1) =>
        http.fwd.scopes = WithScopes(GetScopes(ParseJWTClaims(http.token).claims))

====
